---- MODULE Spec2Model ----
(***************************************************************************)
(* Model of chaos_load_tester.py: main() drives a Locust local runner      *)
(* (virtual users running ServiceUser.get_endpoint) for a fixed duration   *)
(* while a daemon thread runs inject_chaos() against the Kubernetes API,   *)
(* then generate_report() reads the request statistics.                    *)
(*                                                                         *)
(* Threads: main, the runner's spawner, one greenlet per virtual user,     *)
(* the chaos thread.  Time is abstracted: a sleep is a step that may       *)
(* complete at any moment, so every timed interleaving is included.        *)
(***************************************************************************)
EXTENDS Integers, FiniteSets, Sequences, TLC

\* ---- bounds ----
MaxUsers == 2          \* largest --users value explored
MaxRequests == 2       \* cap on requests issued in one run
MaxTicks == 2          \* cap on chaos loop iterations in one run
ProbScale == 2         \* probabilities and random draws are k/ProbScale
NumPods == 2           \* pods that may exist in the namespace
MaxLatency == 1        \* largest response time (ms) of one request in a run
MaxTotal == 3          \* largest small request count given to generate_report
MaxReportCalls == 2    \* generate_report calls on one set of counters

Pods == 1..NumPods
UserIds == 1..MaxUsers
Probabilities == 0..ProbScale            \* 0, ..., 1 (chaos_prob in [0,1])
RandomValues == 0..(ProbScale - 1)       \* random.random() lies in [0,1)
Outcomes == {"success", "failure", "raised"}
CallResults == {"ok", "ApiException", "Exception"}
NoPod == NumPods + 1      \* an id no pod has
Latencies == 1..MaxLatency
SloScale == 1000          \* an slo is held in thousandths: 0.999 is 999
DefaultSlo == 999         \* --slo default=0.999
RunSlos == {DefaultSlo}      \* the --slo value explored in a full run
NoWait == 0 - 1           \* no pause taken yet

VARIABLES
    users,          \* args.users
    chaos_prob,     \* args.chaos_prob / the probability given to inject_chaos
    pcMain,         \* position of main()
    pcChaos,        \* position of the inject_chaos thread
    userState,      \* per virtual user: position in the task loop
    num_requests,   \* env.stats.total.num_requests
    num_failures,   \* env.stats.total.num_failures
    report,         \* value returned by generate_report, or NoReport
    listed,         \* pods.items of the current tick's list call
    listOk,         \* the current tick's list call returned
    chosen,         \* pod picked by random.choice in the current tick
    callFailed,     \* a list or delete call raised in the current tick
    ticks,          \* loop iterations begun by inject_chaos
    setupCalls,     \* config.load_kube_config() invocations
    listCalls,      \* list_namespaced_pod invocations
    deleteCalls,    \* delete_namespaced_pod invocations
    tickLists,      \* list calls issued in the current tick
    tickDeletes,    \* delete calls issued in the current tick
    issued,         \* requests started by virtual users
    recorded,       \* request outcomes logged into env.stats
    setupFailed,    \* load_kube_config / CoreV1Api raised
    slo,            \* args.slo, in thousandths
    total_response_time,  \* env.stats.total.total_response_time
    reportCalls,    \* generate_report invocations
    lastWait        \* length of the latest pause between two tasks

vars == <<users, chaos_prob, pcMain, pcChaos, userState, num_requests,
          num_failures, report, listed, listOk, chosen, callFailed, ticks,
          setupCalls, listCalls, deleteCalls, tickLists, tickDeletes,
          issued, recorded, setupFailed, slo, total_response_time,
          reportCalls, lastWait>>

mainVars == <<users, chaos_prob, slo, pcMain, report, reportCalls>>
statVars == <<num_requests, num_failures, total_response_time, recorded>>
userVars == <<userState, issued, lastWait>>
chaosVars == <<pcChaos, listed, listOk, chosen, callFailed, ticks, setupCalls,
               listCalls, deleteCalls, tickLists, tickDeletes, setupFailed>>

NoReport == [kind |-> "none"]

\* ---- numbers ----
\* The report's floats are held as exact fractions num/den in lowest terms
\* with den > 0; the rounding of the float operations is not modelled.
\* Each operator binds its operands to values (x \in {a}) before using
\* them, so that an operand is evaluated once however often it is used.
RECURSIVE GCD(_, _)
GCD(a, b) ==
    CHOOSE g \in {IF y = 0 THEN x ELSE GCD(y, x % y) : x \in {a}, y \in {b}} :
        TRUE

Abs(x) == IF x < 0 THEN 0 - x ELSE x

Frac(n, d) ==
    LET Lowest(sn, sd) ==
            CHOOSE f \in {[num |-> sn \div g, den |-> sd \div g] :
                          g \in {GCD(Abs(sn), sd)}} : TRUE
    IN  CHOOSE f \in {Lowest(IF y < 0 THEN 0 - x ELSE x, Abs(y)) :
                      x \in {n}, y \in {d}} : TRUE

Zero == Frac(0, 1)
One == Frac(1, 1)
Hundred == Frac(100, 1)

FracSub(a, b) ==
    CHOOSE f \in {Frac(x.num * y.den - y.num * x.den, x.den * y.den) :
                  x \in {a}, y \in {b}} : TRUE

FracMul(a, b) ==
    CHOOSE f \in {Frac(x.num * y.num, x.den * y.den) :
                  x \in {a}, y \in {b}} : TRUE

FracDiv(a, b) ==
    CHOOSE f \in {Frac(x.num * y.den, x.den * y.num) :
                  x \in {a}, y \in {b}} : TRUE

FracLE(a, b) == a.num * b.den <= b.num * a.den
IsFrac(x) == DOMAIN x = {"num", "den"}

\* ---- generate_report ----
\* the value of "error_budget_consumed_percent" when nothing was requested
NotApplicable == [text |-> "N/A (no data)"]

\* mutant: the empty run reports a consumed budget of 0
no_data_report_zero_budget ==
    [kind |-> "no_data", total_requests |-> 0, failures |-> 0,
     availability_percent |-> Zero, average_latency_ms |-> Zero,
     error_budget_consumed_percent |-> Zero]

\* the dict returned when total_requests == 0
no_data_report ==
    [kind |-> "no_data", total_requests |-> 0, failures |-> 0,
     availability_percent |-> Zero, average_latency_ms |-> Zero,
     error_budget_consumed_percent |-> NotApplicable]

\* mutant: the factor 100 is left out
availability_unscaled(failures, total_requests) ==
    FracSub(One, Frac(failures, total_requests))

\* availability = (1 - (failures / total_requests)) * 100
availability_of(failures, total_requests) ==
    FracMul(FracSub(One, Frac(failures, total_requests)), Hundred)

\* mutant: a 100% SLO with errors reports the budget as used up
error_budget_full_at_100(error_rate, allowed_error_rate) ==
    IF allowed_error_rate.num > 0 /\ error_rate.num > 0
    THEN FracMul(FracDiv(error_rate, allowed_error_rate), Hundred)
    ELSE IF error_rate.num > 0 THEN Hundred ELSE Zero

\* mutant: the guard only keeps the division from dividing by zero
error_budget_nonzero_guard(error_rate, allowed_error_rate) ==
    IF allowed_error_rate.num # 0 /\ error_rate.num > 0
    THEN FracMul(FracDiv(error_rate, allowed_error_rate), Hundred)
    ELSE Zero

\* (error_rate / allowed_error_rate) * 100
\*     if allowed_error_rate > 0 and error_rate > 0 else 0.0
error_budget_consumed(error_rate, allowed_error_rate) ==
    IF allowed_error_rate.num > 0 /\ error_rate.num > 0
    THEN FracMul(FracDiv(error_rate, allowed_error_rate), Hundred)
    ELSE Zero

\* stats.total.avg_response_time: total_response_time / num_requests, 0 when
\* there are no requests
avg_response_time(response_time, total_requests) ==
    IF total_requests = 0 THEN Zero ELSE Frac(response_time, total_requests)

generate_report(total_requests, failures, response_time, slo_arg) ==
    IF total_requests = 0
    THEN no_data_report
    ELSE LET availability == availability_of(failures, total_requests)
             error_rate == FracSub(One, FracDiv(availability, Hundred))
             allowed_error_rate == FracSub(One, Frac(slo_arg, SloScale))
             avg_latency == IF total_requests > 0
                            THEN avg_response_time(response_time, total_requests)
                            ELSE Zero
         IN  [kind |-> "data",
              total_requests |-> total_requests,
              failures |-> failures,
              availability_percent |-> availability,
              average_latency_ms |-> avg_latency,
              error_budget_consumed_percent |->
                  error_budget_consumed(error_rate, allowed_error_rate)]

\* ---- initial states ----
InitCommon ==
    /\ users \in 1..MaxUsers
    /\ userState = [u \in UserIds |-> "unspawned"]
    /\ num_requests = 0
    /\ num_failures = 0
    /\ report = NoReport
    /\ listed = {}
    /\ listOk = FALSE
    /\ chosen = NoPod
    /\ callFailed = FALSE
    /\ ticks = 0
    /\ setupCalls = 0
    /\ listCalls = 0
    /\ deleteCalls = 0
    /\ tickLists = 0
    /\ tickDeletes = 0
    /\ issued = 0
    /\ recorded = 0
    /\ setupFailed = FALSE
    /\ total_response_time = 0
    /\ reportCalls = 0
    /\ lastWait = NoWait

\* the program started from the command line: main(args)
Init ==
    /\ InitCommon
    /\ chaos_prob \in Probabilities
    /\ slo \in RunSlos
    /\ pcMain = "create_env"
    /\ pcChaos = "not_started"

\* ---- main ----
\* Environment(...), create_local_runner(), env.stats.reset_all()
main_create_env ==
    /\ pcMain = "create_env"
    /\ pcMain' = "start_chaos"
    /\ num_requests' = 0
    /\ num_failures' = 0
    /\ total_response_time' = 0
    /\ UNCHANGED <<users, chaos_prob, slo, report, reportCalls, recorded>>
    /\ UNCHANGED userVars
    /\ UNCHANGED chaosVars

\* mutant: the thread is started for every probability
chaos_enabled_always(p) == p >= 0

\* if args.chaos_prob > 0
chaos_enabled(p) == p > 0

\* if args.chaos_prob > 0: chaos_thread.start()
main_start_chaos ==
    /\ pcMain = "start_chaos"
    /\ pcMain' = "runner_start"
    /\ pcChaos' = IF chaos_enabled(chaos_prob) THEN "setup" ELSE pcChaos
    /\ UNCHANGED <<users, chaos_prob, slo, report, reportCalls>>
    /\ UNCHANGED statVars
    /\ UNCHANGED userVars
    /\ UNCHANGED <<listed, listOk, chosen, callFailed, ticks, setupCalls,
                   listCalls, deleteCalls, tickLists, tickDeletes, setupFailed>>

\* runner.start(args.users, spawn_rate=1): returns at once, the spawner
\* brings the users up in the background
main_runner_start ==
    /\ pcMain = "runner_start"
    /\ pcMain' = "sleep"
    /\ UNCHANGED <<users, chaos_prob, slo, report, reportCalls>>
    /\ UNCHANGED statVars
    /\ UNCHANGED userVars
    /\ UNCHANGED chaosVars

\* mutant: main goes from the sleep to the report without runner.quit()
main_sleep_skip_quit ==
    /\ pcMain = "sleep"
    /\ pcMain' = "report"
    /\ UNCHANGED <<users, chaos_prob, slo, report, reportCalls>>
    /\ UNCHANGED statVars
    /\ UNCHANGED userVars
    /\ UNCHANGED chaosVars

\* time.sleep(args.duration) returns
main_sleep ==
    /\ pcMain = "sleep"
    /\ pcMain' = "quit"
    /\ UNCHANGED <<users, chaos_prob, slo, report, reportCalls>>
    /\ UNCHANGED statVars
    /\ UNCHANGED userVars
    /\ UNCHANGED chaosVars

\* mutant: quit lets a request in flight finish and be logged
runner_quit_graceful(state) ==
    [u \in UserIds |-> IF state[u] \in {"unspawned", "inflight"} THEN state[u]
                       ELSE "stopped"]

\* runner.quit(): the runner kills the spawner and every user greenlet; a
\* request still in flight is abandoned without being logged
runner_quit(state) ==
    [u \in UserIds |-> IF state[u] = "unspawned" THEN "unspawned" ELSE "stopped"]

\* mutant: main waits for the chaos thread to end before stopping the run
main_runner_quit_join ==
    /\ pcMain = "quit"
    /\ pcChaos \in {"not_started", "returned", "dead"}
    /\ pcMain' = "report"
    /\ userState' = runner_quit(userState)
    /\ UNCHANGED <<users, chaos_prob, slo, report, reportCalls, issued, lastWait>>
    /\ UNCHANGED statVars
    /\ UNCHANGED chaosVars

main_runner_quit ==
    /\ pcMain = "quit"
    /\ pcMain' = "report"
    /\ userState' = runner_quit(userState)
    /\ UNCHANGED <<users, chaos_prob, slo, report, reportCalls, issued, lastWait>>
    /\ UNCHANGED statVars
    /\ UNCHANGED chaosVars

\* report = generate_report(env, args.slo)
main_generate_report ==
    /\ pcMain = "report"
    /\ pcMain' = "print"
    /\ report' = generate_report(num_requests, num_failures,
                                  total_response_time, slo)
    /\ reportCalls' = reportCalls + 1
    /\ UNCHANGED <<users, chaos_prob, slo>>
    /\ UNCHANGED statVars
    /\ UNCHANGED userVars
    /\ UNCHANGED chaosVars

\* the print statements; main returns
main_print ==
    /\ pcMain = "print"
    /\ pcMain' = "returned"
    /\ UNCHANGED <<users, chaos_prob, slo, report, reportCalls>>
    /\ UNCHANGED statVars
    /\ UNCHANGED userVars
    /\ UNCHANGED chaosVars

\* end of the __main__ block: the interpreter exits and the daemon thread
\* is abandoned wherever it stands
process_exit ==
    /\ pcMain = "returned"
    /\ pcMain' = "exited"
    /\ UNCHANGED <<users, chaos_prob, slo, report, reportCalls>>
    /\ UNCHANGED statVars
    /\ UNCHANGED userVars
    /\ UNCHANGED chaosVars

\* ---- load generator ----
RunnerSpawning == pcMain \in {"sleep", "quit"}
NextUser == CHOOSE u \in UserIds : /\ userState[u] = "unspawned"
                                   /\ \A v \in UserIds : v < u => userState[v] # "unspawned"

\* the spawner started by runner.start brings up one more user, up to args.users
spawn_user ==
    /\ RunnerSpawning
    /\ \E u \in UserIds : userState[u] = "unspawned" /\ u <= users
    /\ NextUser <= users
    /\ userState' = [userState EXCEPT ![NextUser] = "ready"]
    /\ UNCHANGED <<issued, lastWait>>
    /\ UNCHANGED mainVars
    /\ UNCHANGED statVars
    /\ UNCHANGED chaosVars

\* get_endpoint: self.client.get("/", timeout=2) is sent
get_endpoint_request(u) ==
    /\ userState[u] = "ready"
    /\ issued < MaxRequests
    /\ userState' = [userState EXCEPT ![u] = "inflight"]
    /\ issued' = issued + 1
    /\ UNCHANGED lastWait
    /\ UNCHANGED mainVars
    /\ UNCHANGED statVars
    /\ UNCHANGED chaosVars

\* mutant: a failed request is counted as a failure only
log_request_failure_only(outcome, total, failures) ==
    CASE outcome = "success" -> <<total + 1, failures>>
      [] outcome = "failure" -> <<total, failures + 1>>
      [] OTHER -> <<total, failures>>

\* what the client logs into env.stats for one finished request: every
\* response or transport error counts as a request, a failed one also as a
\* failure; an exception that escapes client.get is logged nowhere
log_request(outcome, total, failures) ==
    CASE outcome = "success" -> <<total + 1, failures>>
      [] outcome = "failure" -> <<total + 1, failures + 1>>
      [] OTHER -> <<total, failures>>

\* mutant: without the except clause a raising request ends the user
after_request_unhandled(outcome) ==
    IF outcome = "raised" THEN "stopped" ELSE "waiting"

\* where the user goes when client.get has returned or raised: the except
\* clause swallows whatever is raised, the task ends and the pause follows
after_request(outcome) == "waiting"

\* get_endpoint: client.get returns or raises; a logged outcome carries its
\* response time
get_endpoint_done(u, outcome) ==
    /\ userState[u] = "inflight"
    /\ userState' = [userState EXCEPT ![u] = after_request(outcome)]
    /\ num_requests' = log_request(outcome, num_requests, num_failures)[1]
    /\ num_failures' = log_request(outcome, num_requests, num_failures)[2]
    /\ recorded' = IF outcome = "raised" THEN recorded ELSE recorded + 1
    /\ \E latency \in Latencies :
         total_response_time' = IF outcome = "raised" THEN total_response_time
                                ELSE total_response_time + latency
    /\ UNCHANGED <<issued, lastWait>>
    /\ UNCHANGED mainVars
    /\ UNCHANGED chaosVars

\* between(min_wait, max_wait): the lengths it may return
between(min_wait, max_wait) == min_wait..max_wait

\* wait_times = between(5, 10): the attribute ServiceUser sets
wait_times == between(5, 10)

\* wait_time, the attribute the runner reads for the pause: ServiceUser does
\* not set it, so it is the one inherited from HttpUser, a constant 0
wait_time == {0}

\* the pause between two tasks of one user, of a length taken from wait_time
user_wait(u) ==
    /\ userState[u] = "waiting"
    /\ userState' = [userState EXCEPT ![u] = "ready"]
    /\ lastWait' \in wait_time
    /\ UNCHANGED issued
    /\ UNCHANGED mainVars
    /\ UNCHANGED statVars
    /\ UNCHANGED chaosVars

\* ---- inject_chaos ----
\* the daemon thread runs while the process lives
ChaosRunnable == pcMain # "exited"

\* mutant: the setup error is logged but the function does not return
after_setup_fallthrough(ok) == "loop"

\* where inject_chaos goes after load_kube_config() / CoreV1Api():
\* "except Exception: ... return"
after_setup(ok) == IF ok THEN "loop" ELSE "returned"

inject_chaos_setup ==
    /\ ChaosRunnable
    /\ pcChaos = "setup"
    /\ \E ok \in BOOLEAN :
         /\ pcChaos' = after_setup(ok)
         /\ setupFailed' = ~ok
    /\ setupCalls' = setupCalls + 1
    /\ UNCHANGED <<listed, listOk, chosen, callFailed, ticks, listCalls,
                   deleteCalls, tickLists, tickDeletes>>
    /\ UNCHANGED mainVars
    /\ UNCHANGED statVars
    /\ UNCHANGED userVars

\* mutant: the comparison is not strict
chaos_fires_inclusive(r, probability) == r <= probability

\* if random.random() < probability
chaos_fires(r, probability) == r < probability

\* one pass through "while True": draw the random value and decide
inject_chaos_tick ==
    /\ ChaosRunnable
    /\ pcChaos = "loop"
    /\ ticks < MaxTicks
    /\ \E r \in RandomValues :
         pcChaos' = IF chaos_fires(r, chaos_prob) THEN "list" ELSE "sleep"
    /\ ticks' = ticks + 1
    /\ listed' = {}
    /\ listOk' = FALSE
    /\ chosen' = NoPod
    /\ callFailed' = FALSE
    /\ tickLists' = 0
    /\ tickDeletes' = 0
    /\ UNCHANGED <<setupCalls, listCalls, deleteCalls, setupFailed>>
    /\ UNCHANGED mainVars
    /\ UNCHANGED statVars
    /\ UNCHANGED userVars

\* what a raising API call leads to: "except ApiException" logs and falls
\* through to the sleep; anything else leaves the function and ends the thread
on_call_error(result) == IF result = "ApiException" THEN "sleep" ELSE "dead"

\* mutant: the pod is picked from a list other than the one just returned
random_choice_any(items) == Pods

\* random.choice(pods.items): the pods it may return
random_choice(items) == items

\* mutant: the "if pods.items" test is missing, an empty list goes on to
\* the delete call
inject_chaos_list_no_empty_check ==
    /\ ChaosRunnable
    /\ pcChaos = "list"
    /\ listCalls' = listCalls + 1
    /\ tickLists' = tickLists + 1
    /\ \E result \in CallResults, items \in SUBSET Pods :
         IF result = "ok"
         THEN /\ listOk' = TRUE
              /\ listed' = items
              /\ callFailed' = callFailed
              /\ pcChaos' = "delete"
              /\ IF items # {}
                 THEN chosen' \in items
                 ELSE chosen' = chosen
         ELSE /\ callFailed' = TRUE
              /\ pcChaos' = on_call_error(result)
              /\ UNCHANGED <<listOk, listed, chosen>>
    /\ UNCHANGED <<ticks, setupCalls, deleteCalls, tickDeletes, setupFailed>>
    /\ UNCHANGED mainVars
    /\ UNCHANGED statVars
    /\ UNCHANGED userVars

\* pods = v1.list_namespaced_pod(namespace); if pods.items: pick one
inject_chaos_list ==
    /\ ChaosRunnable
    /\ pcChaos = "list"
    /\ listCalls' = listCalls + 1
    /\ tickLists' = tickLists + 1
    /\ \E result \in CallResults, items \in SUBSET Pods :
         IF result = "ok"
         THEN /\ listOk' = TRUE
              /\ listed' = items
              /\ callFailed' = callFailed
              /\ IF items # {}
                 THEN /\ chosen' \in random_choice(items)
                      /\ pcChaos' = "delete"
                 ELSE /\ chosen' = chosen
                      /\ pcChaos' = "sleep"
         ELSE /\ callFailed' = TRUE
              /\ pcChaos' = on_call_error(result)
              /\ UNCHANGED <<listOk, listed, chosen>>
    /\ UNCHANGED <<ticks, setupCalls, deleteCalls, tickDeletes, setupFailed>>
    /\ UNCHANGED mainVars
    /\ UNCHANGED statVars
    /\ UNCHANGED userVars

\* v1.delete_namespaced_pod(pod.metadata.name, namespace)
inject_chaos_delete ==
    /\ ChaosRunnable
    /\ pcChaos = "delete"
    /\ deleteCalls' = deleteCalls + 1
    /\ tickDeletes' = tickDeletes + 1
    /\ \E result \in CallResults :
         IF result = "ok"
         THEN /\ pcChaos' = "sleep"
              /\ callFailed' = callFailed
         ELSE /\ pcChaos' = on_call_error(result)
              /\ callFailed' = TRUE
    /\ UNCHANGED <<listed, listOk, chosen, ticks, setupCalls, listCalls,
                   tickLists, setupFailed>>
    /\ UNCHANGED mainVars
    /\ UNCHANGED statVars
    /\ UNCHANGED userVars

\* time.sleep(interval) returns
inject_chaos_sleep ==
    /\ ChaosRunnable
    /\ pcChaos = "sleep"
    /\ pcChaos' = "loop"
    /\ UNCHANGED <<listed, listOk, chosen, callFailed, ticks, setupCalls,
                   listCalls, deleteCalls, tickLists, tickDeletes, setupFailed>>
    /\ UNCHANGED mainVars
    /\ UNCHANGED statVars
    /\ UNCHANGED userVars

\* ---- specifications ----
MainNext ==
    \/ main_create_env
    \/ main_start_chaos
    \/ main_runner_start
    \/ main_sleep
    \/ main_runner_quit
    \/ main_generate_report
    \/ main_print
    \/ process_exit

ChaosNext ==
    \/ inject_chaos_setup
    \/ inject_chaos_tick
    \/ inject_chaos_list
    \/ inject_chaos_delete
    \/ inject_chaos_sleep

UserNext ==
    \/ spawn_user
    \/ \E u \in UserIds : get_endpoint_request(u)
    \/ \E u \in UserIds, outcome \in Outcomes : get_endpoint_done(u, outcome)
    \/ \E u \in UserIds : user_wait(u)

Next == MainNext \/ UserNext \/ ChaosNext

Spec == Init /\ [][Next]_vars

\* main is a running thread: each of its steps, the duration sleep included,
\* eventually completes
SpecLive == Init /\ [][Next]_vars /\ WF_vars(MainNext)

\* inject_chaos called on its own, with any probability in [0,1]
InitChaos ==
    /\ InitCommon
    /\ chaos_prob \in Probabilities
    /\ slo = DefaultSlo
    /\ pcMain = "caller"
    /\ pcChaos = "setup"

SpecChaos == InitChaos /\ [][ChaosNext]_vars

\* ---- generate_report called on its own ----
Totals == (0..MaxTotal) \cup {100, 1000}
Slos == {0, 500, 990, DefaultSlo, SloScale, SloScale + 1}
MeanLatencies == {0, 50, 100}

\* the statistics of a finished run and an slo, handed to generate_report
InitReport ==
    /\ users = 1
    /\ chaos_prob = 0
    /\ pcMain = "caller"
    /\ pcChaos = "not_started"
    /\ userState = [u \in UserIds |-> "unspawned"]
    /\ num_requests \in Totals
    /\ num_failures \in 0..num_requests
    /\ total_response_time \in {m * num_requests : m \in MeanLatencies}
    /\ slo \in Slos
    /\ recorded = num_requests
    /\ issued = num_requests
    /\ report = NoReport
    /\ reportCalls = 0
    /\ lastWait = NoWait
    /\ listed = {}
    /\ listOk = FALSE
    /\ chosen = NoPod
    /\ callFailed = FALSE
    /\ ticks = 0
    /\ setupCalls = 0
    /\ listCalls = 0
    /\ deleteCalls = 0
    /\ tickLists = 0
    /\ tickDeletes = 0
    /\ setupFailed = FALSE

\* mutant: the statistics are reset once they have been read
generate_report_call_reset ==
    /\ pcMain = "caller"
    /\ reportCalls < MaxReportCalls
    /\ report' = generate_report(num_requests, num_failures,
                                  total_response_time, slo)
    /\ reportCalls' = reportCalls + 1
    /\ num_requests' = 0
    /\ num_failures' = 0
    /\ total_response_time' = 0
    /\ UNCHANGED <<users, chaos_prob, slo, pcMain, recorded>>
    /\ UNCHANGED userVars
    /\ UNCHANGED chaosVars

\* generate_report(env, slo): reads env.stats and returns the dict
generate_report_call ==
    /\ pcMain = "caller"
    /\ reportCalls < MaxReportCalls
    /\ report' = generate_report(num_requests, num_failures,
                                  total_response_time, slo)
    /\ reportCalls' = reportCalls + 1
    /\ UNCHANGED <<users, chaos_prob, slo, pcMain>>
    /\ UNCHANGED statVars
    /\ UNCHANGED userVars
    /\ UNCHANGED chaosVars

ReportNext == generate_report_call

SpecReport == InitReport /\ [][ReportNext]_vars

TypeOK ==
    /\ users \in 1..MaxUsers
    /\ chaos_prob \in Probabilities
    /\ pcMain \in {"caller", "create_env", "start_chaos", "runner_start",
                   "sleep", "quit", "report", "print", "returned", "exited"}
    /\ pcChaos \in {"not_started", "setup", "loop", "list", "delete", "sleep",
                    "returned", "dead"}
    /\ userState \in [UserIds -> {"unspawned", "ready", "inflight", "waiting",
                                  "stopped"}]
    /\ num_requests \in 0..MaxRequests
    /\ num_failures \in 0..MaxRequests
    /\ listed \subseteq Pods
    /\ chosen \in Pods \cup {NoPod}
    /\ ticks \in 0..MaxTicks

\* ---- properties ----
\* runner.quit() has returned: the run has been stopped
StopRaised == pcMain \in {"report", "print", "returned", "exited"}
ReportDone == report.kind # "none"
Armed == pcChaos \in {"loop", "list", "delete", "sleep"}
TickOver == ticks > 0 /\ pcChaos \in {"sleep", "loop", "dead"}
AllUsersStopped == \A u \in UserIds : u <= users => userState[u] = "stopped"

\* C1: once main has stopped the run, the chaos injector begins no further
\* tick (a tick already under way may finish).
C1_NoTickAfterStop == [][StopRaised => ticks' = ticks]_vars

\* C2: once runner.quit() has returned, no virtual user starts a request and
\* the request and failure counters never change.
C2_NoRequestAfterQuit ==
    [][StopRaised => /\ issued' = issued
                     /\ num_requests' = num_requests
                     /\ num_failures' = num_failures]_vars

C2_Witness ==
    /\ pcMain = "exited"
    /\ AllUsersStopped
    /\ num_requests > 0
    /\ issued > recorded

\* C3: failures never exceed requests, neither counter ever decreases, and
\* the total in the report equals the number of outcomes that were logged.
C3_CountersConsistent ==
    /\ [](num_failures <= num_requests)
    /\ [](ReportDone => report.total_requests = recorded)
    /\ [][num_requests' >= num_requests /\ num_failures' >= num_failures]_vars

C3_Witness ==
    /\ ReportDone
    /\ users > 1
    /\ AllUsersStopped
    /\ report.failures > 0
    /\ report.failures < report.total_requests
    /\ report.total_requests = MaxRequests

\* C4: inject_chaos run with probability 0 never calls list or delete,
\* however many ticks it goes through.
C4_ZeroProbabilityNoCalls ==
    chaos_prob = 0 => (listCalls = 0 /\ deleteCalls = 0)

C4_Witness == chaos_prob = 0 /\ ticks >= 2 /\ pcChaos = "sleep"

\* C5: inject_chaos run with probability 1 lists in every tick, issues
\* exactly one delete in a tick whose list came back non-empty (never more
\* than one in any tick), and deletes a pod of that tick's list.
C5_OneDeleteFromList ==
    chaos_prob = ProbScale =>
        /\ tickDeletes <= 1
        /\ TickOver => tickLists = 1
        /\ (TickOver /\ listOk /\ listed # {}) => tickDeletes = 1
        /\ (pcChaos = "delete" \/ tickDeletes = 1) => chosen \in listed

C5_Witness ==
    /\ chaos_prob = ProbScale
    /\ ticks >= 2
    /\ pcChaos = "sleep"
    /\ Cardinality(listed) > 1
    /\ tickDeletes = 1
    /\ deleteCalls >= 2

\* C6: a list or delete call that fails in a tick leaves the injector
\* Armed, on its way to the next tick.
C6_FailureKeepsArmed == callFailed => Armed

\* C7: when the cluster-client setup fails, inject_chaos returns before its
\* first tick and never calls list or delete.
C7_SetupFailureExits ==
    setupFailed => /\ pcChaos = "returned"
                   /\ ticks = 0
                   /\ listCalls = 0
                   /\ deleteCalls = 0

C7_Witness ==
    /\ setupFailed
    /\ pcMain = "exited"
    /\ report.kind = "data"
    /\ AllUsersStopped

\* C8: with chaos probability 0 main never starts the chaos thread and no
\* control-plane call (setup, list, delete) is made during the run.
C8_NoChaosNoControlPlane ==
    chaos_prob = 0 => /\ pcChaos = "not_started"
                      /\ setupCalls = 0
                      /\ listCalls = 0
                      /\ deleteCalls = 0

C8_Witness ==
    /\ chaos_prob = 0
    /\ pcMain = "exited"
    /\ report.kind = "data"

\* C9: every run ends with a report: main reaches generate_report and then
\* exits, whatever the target service and the control plane do.
C9_RunYieldsReport == <>(ReportDone /\ pcMain = "exited")

C9_Witness ==
    /\ pcMain = "exited"
    /\ report.kind = "data"
    /\ report.failures = report.total_requests
    /\ pcChaos = "dead"
    /\ callFailed

\* C10: once the report has been computed the counters are frozen: in every
\* later state they still equal the values in the report.
C10_CountersFrozen ==
    ReportDone => /\ report.total_requests = num_requests
                  /\ report.failures = num_failures

C10_Witness ==
    /\ pcMain = "exited"
    /\ report.kind = "data"
    /\ issued > recorded
    /\ report.failures > 0

\* C11: with no request the report has total 0, failures 0, availability 0,
\* average latency 0 and, for every slo, the non-numeric "N/A" text as the
\* consumed error budget.
C11_NoDataReport ==
    (ReportDone /\ num_requests = 0) =>
        /\ report.total_requests = 0
        /\ report.failures = 0
        /\ report.availability_percent = Zero
        /\ report.average_latency_ms = Zero
        /\ report.error_budget_consumed_percent = NotApplicable
        /\ ~IsFrac(report.error_budget_consumed_percent)

C11_Witness ==
    /\ ReportDone
    /\ num_requests = 0
    /\ slo = SloScale
    /\ report.kind = "no_data"

\* C12: with requests, failures <= total and 0 < slo < 1, availability is
\* (1 - failures/total) * 100 and the consumed budget is
\* ((failures/total) / (1 - slo)) * 100 when there are failures and 0 when
\* there are none; (100, 1, 0.99) gives 99 and 100, (1000, 0, 0.999) gives
\* 100 and 0.
C12_Formulas ==
    (ReportDone /\ num_requests > 0 /\ slo > 0 /\ slo < SloScale) =>
        /\ report.availability_percent =
               Frac(100 * (num_requests - num_failures), num_requests)
        /\ report.error_budget_consumed_percent =
               IF num_failures > 0
               THEN Frac(100 * num_failures * SloScale,
                         num_requests * (SloScale - slo))
               ELSE Zero
        /\ (num_requests = 100 /\ num_failures = 1 /\ slo = 990) =>
               /\ report.availability_percent = Frac(99, 1)
               /\ report.error_budget_consumed_percent = Hundred
        /\ (num_requests = 1000 /\ num_failures = 0 /\ slo = 999) =>
               /\ report.availability_percent = Hundred
               /\ report.error_budget_consumed_percent = Zero

C12_Witness ==
    /\ ReportDone
    /\ num_requests = 100
    /\ num_failures = 1
    /\ slo = 990
    /\ report.error_budget_consumed_percent = Hundred

\* C13: with requests and slo >= 1 the consumed budget is 0 for every
\* failure count, all requests failing included.
C13_FullSloBudgetZero ==
    (ReportDone /\ num_requests > 0 /\ slo >= SloScale) =>
        report.error_budget_consumed_percent = Zero

C13_Witness ==
    /\ ReportDone
    /\ slo = SloScale
    /\ num_requests > 1
    /\ num_failures = num_requests

\* C14: generate_report leaves the counters as they are, and a second call
\* on the same counters and slo returns the report of the first.
C14_ReportRepeatable ==
    /\ [][ReportDone => report' = report]_vars
    /\ [][/\ num_requests' = num_requests
          /\ num_failures' = num_failures
          /\ total_response_time' = total_response_time]_vars

C14_Witness ==
    /\ reportCalls >= 2
    /\ report.kind = "data"
    /\ num_failures > 0
    /\ num_failures < num_requests

NumStarted == Cardinality({u \in UserIds : userState[u] # "unspawned"})

\* C15: a user whose request ends, in whatever way, goes on to its pause
\* and next task, no other user changes state in that step, and no user is
\* stopped before main stops the run.
C15_FailureKeepsUsersRunning ==
    /\ [][\A u \in UserIds :
            (userState[u] = "inflight" /\ userState'[u] # "inflight"
               /\ pcMain' = pcMain)
            => /\ userState'[u] = "waiting"
               /\ \A v \in UserIds \ {u} : userState'[v] = userState[v]]_vars
    /\ [](~StopRaised => \A u \in UserIds : userState[u] # "stopped")

C15_Witness ==
    /\ users = 2
    /\ pcMain = "sleep"
    /\ issued = 2
    /\ recorded = 1
    /\ num_failures = 1
    /\ userState[1] = "inflight"
    /\ userState[2] = "ready"

\* C16: when main stops the run, the number of users started equals
\* args.users.
C16_AllUsersStarted == StopRaised => NumStarted = users

\* C17: every pause between two tasks of a user has a length within the
\* bounds given to between(5, 10).
C17_WaitWithinBounds == lastWait # NoWait => lastWait \in wait_times

\* C18: a tick whose list call returns no pod issues no delete and leaves
\* the injector Armed; a tick issues at most one list and one delete call,
\* and a delete only after a list.
C18_EmptyListNoDelete ==
    /\ tickLists <= 1
    /\ tickDeletes <= tickLists
    /\ (listOk /\ listed = {}) => (tickDeletes = 0 /\ Armed)

C18_Witness ==
    /\ listOk
    /\ listed = {}
    /\ pcChaos = "loop"
    /\ ticks >= 2
    /\ deleteCalls >= 1

\* C19: for all counters with 0 <= failures <= total and every slo, the
\* availability lies in [0, 100] and the consumed budget is either the
\* "N/A" text or a number >= 0.
C19_ReportRanges ==
    ReportDone =>
        /\ FracLE(Zero, report.availability_percent)
        /\ FracLE(report.availability_percent, Hundred)
        /\ IF IsFrac(report.error_budget_consumed_percent)
           THEN report.error_budget_consumed_percent.num >= 0
           ELSE report.error_budget_consumed_percent = NotApplicable

C19_Witness ==
    /\ ReportDone
    /\ report.kind = "data"
    /\ report.availability_percent = Zero
    /\ FracLE(Hundred, report.error_budget_consumed_percent)
    /\ report.error_budget_consumed_percent # Hundred

====
